---- MODULE Spec2Model ----
\* go-home: device registry, validation engine, update merge and alarm trigger
\* of the smart-home device backend, modelled from the Go sources.
\*
\* A Go string is modelled as the sequence of its Unicode code points; len(s),
\* which counts UTF-8 bytes, is the sum of the encoded widths of the code points.
EXTENDS Integers, Sequences, FiniteSets, TLC

VARIABLES
    call,       \* the pure-function call under evaluation: [fn, arg]
    ret,        \* its result once evaluated
    done,       \* TRUE once the call has been evaluated
    db,         \* the devices table: id -> row (a row maps column name -> value; a NULL column is absent)
    seq,        \* sqlite AUTOINCREMENT high-water mark of devices.id
    now,        \* CURRENT_TIMESTAMP
    pc,         \* per request goroutine: position inside its handler
    req,        \* per request goroutine: the request being served and the handler's locals
    resp        \* the HTTP response written last

vars == <<call, ret, done, db, seq, now, pc, req, resp>>

-----------------------------------------------------------------------------
\* Bounds of the model

\* how many characters past each length limit the enumerated inputs go
Over == 1
\* number of request goroutines served concurrently
NumProcs == 2
\* rows the AUTOINCREMENT counter may hand out before the model stops creating
MaxSeq == 2
\* ticks of the store clock
MaxClock == 2

-----------------------------------------------------------------------------
\* Strings

\* bytes of the UTF-8 encoding of code point c
Utf8Width(c) == IF c < 128 THEN 1 ELSE IF c < 2048 THEN 2 ELSE IF c < 65536 THEN 3 ELSE 4

\* Go's built-in len on a string: the number of bytes of its UTF-8 encoding
\* (one per character, plus one for each character needing a second, third, fourth byte)
GoLen(s) ==
    Len(s) + Cardinality({i \in 1..Len(s) : Utf8Width(s[i]) >= 2})
           + Cardinality({i \in 1..Len(s) : Utf8Width(s[i]) >= 3})
           + Cardinality({i \in 1..Len(s) : Utf8Width(s[i]) >= 4})

\* the number of characters of a string
CharCount(s) == Len(s)

Rep(c, n) == [i \in 1..n |-> c]

RECURSIVE Digits(_)
Digits(n) == IF n < 10 THEN <<48 + n>> ELSE Digits(n \div 10) \o <<48 + (n % 10)>>

\* fmt's %d verb
Itoa(n) == Digits(n)

RECURSIVE Join(_, _)
\* strings.Join
Join(elems, sep) ==
    IF Len(elems) = 0 THEN <<>>
    ELSE IF Len(elems) = 1 THEN elems[1]
    ELSE elems[1] \o sep \o Join(Tail(elems), sep)

-----------------------------------------------------------------------------
\* Device type registry (internal/models/device_type.go)

\* "CAMERA"
DeviceTypeCamera ==
    <<67, 65, 77, 69, 82, 65>>
\* "THERMOSTAT"
DeviceTypeThermostat ==
    <<84, 72, 69, 82, 77, 79, 83, 84, 65, 84>>
\* "SMOKE_DETECTOR"
DeviceTypeSmokeDetector ==
    <<83, 77, 79, 75, 69, 95, 68, 69, 84, 69, 67, 84, 79, 82>>
\* "MOTION_SENSOR"
DeviceTypeMotionSensor ==
    <<77, 79, 84, 73, 79, 78, 95, 83, 69, 78, 83, 79, 82>>
\* "LOCK"
DeviceTypeLock ==
    <<76, 79, 67, 75>>
\* "UNKNOWN"
DeviceTypeUnknown ==
    <<85, 78, 75, 78, 79, 87, 78>>

IsValid_NoUnknown(dt) ==
    dt \in {DeviceTypeCamera, DeviceTypeThermostat, DeviceTypeSmokeDetector,
            DeviceTypeMotionSensor, DeviceTypeLock}

\* func (dt DeviceType) IsValid() bool
IsValid(dt) ==
    dt \in {DeviceTypeCamera, DeviceTypeThermostat, DeviceTypeSmokeDetector,
            DeviceTypeMotionSensor, DeviceTypeLock, DeviceTypeUnknown}

\* func IsValidDeviceType(dt DeviceType) bool
IsValidDeviceType(dt) == IsValid(dt)

GetAllDeviceTypes_Swapped ==
    << [ID |-> DeviceTypeCamera,
        \* "Camera"
        DisplayName |-> <<67, 97, 109, 101, 114, 97>>,
        \* "Smart security camera"
        Description |-> <<83, 109, 97, 114, 116, 32, 115, 101, 99, 117, 114, 105, 116, 121, 32, 99, 97, 109, 101, 114, 97>>],
       [ID |-> DeviceTypeThermostat,
        DisplayName |-> <<84, 104, 101, 114, 109, 111, 115, 116, 97, 116>>,
        Description |-> <<83, 109, 97, 114, 116, 32, 116, 104, 101, 114, 109, 111, 115, 116, 97, 116, 32, 102, 111, 114, 32, 99, 111, 110, 116, 114, 111, 108, 108, 105, 110, 103, 32, 116, 101, 109, 112, 101, 114, 97, 116, 117, 114, 101>>],
       [ID |-> DeviceTypeMotionSensor,
        DisplayName |-> <<77, 111, 116, 105, 111, 110, 32, 83, 101, 110, 115, 111, 114>>,
        Description |-> <<68, 101, 116, 101, 99, 116, 115, 32, 109, 111, 118, 101, 109, 101, 110, 116, 32, 105, 110, 32, 109, 111, 110, 105, 116, 111, 114, 101, 100, 32, 97, 114, 101, 97, 115>>],
       [ID |-> DeviceTypeSmokeDetector,
        DisplayName |-> <<83, 109, 111, 107, 101, 32, 68, 101, 116, 101, 99, 116, 111, 114>>,
        Description |-> <<68, 101, 116, 101, 99, 116, 115, 32, 115, 109, 111, 107, 101, 32, 97, 110, 100, 32, 102, 105, 114, 101, 32, 104, 97, 122, 97, 114, 100, 115>>],
       [ID |-> DeviceTypeLock,
        DisplayName |-> <<76, 111, 99, 107>>,
        Description |-> <<83, 109, 97, 114, 116, 32, 108, 111, 99, 107, 32, 119, 105, 116, 104, 32, 114, 101, 109, 111, 116, 101, 32, 97, 99, 99, 101, 115, 115, 32, 99, 97, 112, 97, 98, 105, 108, 105, 116, 105, 101, 115>>],
       [ID |-> DeviceTypeUnknown,
        DisplayName |-> <<85, 110, 107, 110, 111, 119, 110>>,
        Description |-> <<85, 110, 107, 110, 111, 119, 110, 32, 100, 101, 118, 105, 99, 101, 32, 116, 121, 112, 101>>] >>

\* func GetAllDeviceTypes() []DeviceTypeInfo
GetAllDeviceTypes ==
    << [ID |-> DeviceTypeCamera,
        \* "Camera"
        DisplayName |-> <<67, 97, 109, 101, 114, 97>>,
        \* "Smart security camera"
        Description |-> <<83, 109, 97, 114, 116, 32, 115, 101, 99, 117, 114, 105, 116, 121, 32, 99, 97, 109, 101, 114, 97>>],
       [ID |-> DeviceTypeThermostat,
        \* "Thermostat"
        DisplayName |-> <<84, 104, 101, 114, 109, 111, 115, 116, 97, 116>>,
        \* "Smart thermostat for controlling temperature"
        Description |-> <<83, 109, 97, 114, 116, 32, 116, 104, 101, 114, 109, 111, 115, 116, 97, 116, 32, 102, 111, 114, 32, 99, 111, 110, 116, 114, 111, 108, 108, 105, 110, 103, 32, 116, 101, 109, 112, 101, 114, 97, 116, 117, 114, 101>>],
       [ID |-> DeviceTypeSmokeDetector,
        \* "Smoke Detector"
        DisplayName |-> <<83, 109, 111, 107, 101, 32, 68, 101, 116, 101, 99, 116, 111, 114>>,
        \* "Detects smoke and fire hazards"
        Description |-> <<68, 101, 116, 101, 99, 116, 115, 32, 115, 109, 111, 107, 101, 32, 97, 110, 100, 32, 102, 105, 114, 101, 32, 104, 97, 122, 97, 114, 100, 115>>],
       [ID |-> DeviceTypeMotionSensor,
        \* "Motion Sensor"
        DisplayName |-> <<77, 111, 116, 105, 111, 110, 32, 83, 101, 110, 115, 111, 114>>,
        \* "Detects movement in monitored areas"
        Description |-> <<68, 101, 116, 101, 99, 116, 115, 32, 109, 111, 118, 101, 109, 101, 110, 116, 32, 105, 110, 32, 109, 111, 110, 105, 116, 111, 114, 101, 100, 32, 97, 114, 101, 97, 115>>],
       [ID |-> DeviceTypeLock,
        \* "Lock"
        DisplayName |-> <<76, 111, 99, 107>>,
        \* "Smart lock with remote access capabilities"
        Description |-> <<83, 109, 97, 114, 116, 32, 108, 111, 99, 107, 32, 119, 105, 116, 104, 32, 114, 101, 109, 111, 116, 101, 32, 97, 99, 99, 101, 115, 115, 32, 99, 97, 112, 97, 98, 105, 108, 105, 116, 105, 101, 115>>],
       [ID |-> DeviceTypeUnknown,
        \* "Unknown"
        DisplayName |-> <<85, 110, 107, 110, 111, 119, 110>>,
        \* "Unknown device type"
        Description |-> <<85, 110, 107, 110, 111, 119, 110, 32, 100, 101, 118, 105, 99, 101, 32, 116, 121, 112, 101>>] >>

-----------------------------------------------------------------------------
\* Validation engine (package validation)

MaxDeviceNameLength == 100
MinDeviceNameLength == 1
MaxOwnerLength == 50
MinOwnerLength == 1
MaxDescriptionLength == 500
MaxLastAlarmReasonLength == 200
MinAlarmReasonLength == 1

\* the character class [a-zA-Z0-9]
IsAlnum(c) == (c >= 97 /\ c <= 122) \/ (c >= 65 /\ c <= 90) \/ (c >= 48 /\ c <= 57)

\* alphanumericPattern.MatchString: ^[a-zA-Z0-9]+$ ($ without the m flag is the end of the text)
MatchAlphanumeric(s) == Len(s) >= 1 /\ \A i \in 1..Len(s) : IsAlnum(s[i])

IsValidDeviceName_OffByOne(name) ==
    IF GoLen(name) < MinDeviceNameLength \/ GoLen(name) >= MaxDeviceNameLength
    THEN FALSE
    ELSE MatchAlphanumeric(name)

\* func IsValidDeviceName(name string) bool
IsValidDeviceName(name) ==
    IF GoLen(name) < MinDeviceNameLength \/ GoLen(name) > MaxDeviceNameLength
    THEN FALSE
    ELSE MatchAlphanumeric(name)

\* func IsValidOwner(owner string) bool
IsValidOwner(owner) ==
    GoLen(owner) >= MinOwnerLength /\ GoLen(owner) <= MaxOwnerLength

\* errors[k] = v on a ValidationErrors map
Put(m, k, v) == [x \in (DOMAIN m) \cup {k} |-> IF x = k THEN v ELSE m[x]]

\* make(ValidationErrors)
NoErrors == [x \in {} |-> <<>>]

\* "must be between %d-%d characters and contain only alphanumeric characters (A-Z, a-z, 0-9)"
NameMessage ==
    <<109, 117, 115, 116, 32, 98, 101, 32, 98, 101, 116, 119, 101, 101, 110, 32>>
    \o Itoa(MinDeviceNameLength) \o <<45>> \o Itoa(MaxDeviceNameLength)
    \o <<32, 99, 104, 97, 114, 97, 99, 116, 101, 114, 115, 32, 97, 110, 100, 32, 99, 111, 110, 116, 97, 105, 110, 32, 111, 110, 108, 121, 32, 97, 108, 112, 104, 97, 110, 117, 109, 101, 114, 105, 99, 32, 99, 104, 97, 114, 97, 99, 116, 101, 114, 115, 32, 40, 65, 45, 90, 44, 32, 97, 45, 122, 44, 32, 48, 45, 57, 41>>

\* "must be between %d-%d characters"
OwnerMessage ==
    <<109, 117, 115, 116, 32, 98, 101, 32, 98, 101, 116, 119, 101, 101, 110, 32>>
    \o Itoa(MinOwnerLength) \o <<45>> \o Itoa(MaxOwnerLength)
    \o <<32, 99, 104, 97, 114, 97, 99, 116, 101, 114, 115>>

\* "must not exceed %d characters"
ExceedMessage(limit) ==
    <<109, 117, 115, 116, 32, 110, 111, 116, 32, 101, 120, 99, 101, 101, 100, 32>>
    \o Itoa(limit) \o <<32, 99, 104, 97, 114, 97, 99, 116, 101, 114, 115>>

\* typeNames: the IDs of GetAllDeviceTypes() in order
TypeNames_Reversed ==
    [i \in 1..Len(GetAllDeviceTypes) |-> GetAllDeviceTypes[Len(GetAllDeviceTypes) + 1 - i].ID]

TypeNames == [i \in 1..Len(GetAllDeviceTypes) |-> GetAllDeviceTypes[i].ID]

\* "must be one of: %s" over strings.Join(typeNames, ", ")
DeviceTypeMessage ==
    <<109, 117, 115, 116, 32, 98, 101, 32, 111, 110, 101, 32, 111, 102, 58, 32>>
    \o Join(TypeNames, <<44, 32>>)

\* "reason cannot be empty"
ReasonEmptyMessage ==
    <<114, 101, 97, 115, 111, 110, 32, 99, 97, 110, 110, 111, 116, 32, 98, 101, 32, 101, 109, 112, 116, 121>>

\* "reason must not exceed %d characters"
ReasonExceedMessage ==
    <<114, 101, 97, 115, 111, 110, 32, 109, 117, 115, 116, 32, 110, 111, 116, 32, 101, 120, 99, 101, 101, 100, 32>>
    \o Itoa(MaxLastAlarmReasonLength) \o <<32, 99, 104, 97, 114, 97, 99, 116, 101, 114, 115>>

\* "level must be one of: INFO, WARNING, CRITICAL"
LevelMessage ==
    <<108, 101, 118, 101, 108, 32, 109, 117, 115, 116, 32, 98, 101, 32, 111, 110, 101, 32, 111, 102, 58, 32, 73, 78, 70, 79, 44, 32, 87, 65, 82, 78, 73, 78, 71, 44, 32, 67, 82, 73, 84, 73, 67, 65, 76>>

\* "INFO"
LevelInfo ==
    <<73, 78, 70, 79>>
\* "WARNING"
LevelWarning ==
    <<87, 65, 82, 78, 73, 78, 71>>
\* "CRITICAL"
LevelCritical ==
    <<67, 82, 73, 84, 73, 67, 65, 76>>

\* a validator's two results
Result(errors) == [ok |-> (Cardinality(DOMAIN errors) = 0), errors |-> errors]

\* func ValidateDeviceCreate(device *models.DeviceCreate) (bool, ValidationErrors)
ValidateDeviceCreate(device) ==
    LET e0 == NoErrors
        e1 == IF ~IsValidDeviceName(device.name)
              THEN Put(e0, "name", NameMessage) ELSE e0
        e2 == IF ~IsValidDeviceType(device.device_type)
              THEN Put(e1, "device_type", DeviceTypeMessage) ELSE e1
        e3 == IF ~IsValidOwner(device.owned_by)
              THEN Put(e2, "owned_by", OwnerMessage) ELSE e2
        e4 == IF GoLen(device.description) > MaxDescriptionLength
              THEN Put(e3, "description", ExceedMessage(MaxDescriptionLength)) ELSE e3
    IN  Result(e4)

ValidateAlarmRequest_AcceptAll(alarm) == Result(NoErrors)

\* func ValidateAlarmRequest(alarm *models.AlarmRequest) (bool, ValidationErrors)
ValidateAlarmRequest(alarm) ==
    LET e0 == NoErrors
        e1 == IF GoLen(alarm.reason) < MinAlarmReasonLength
              THEN Put(e0, "reason", ReasonEmptyMessage)
              ELSE IF GoLen(alarm.reason) > MaxLastAlarmReasonLength
              THEN Put(e0, "reason", ReasonExceedMessage) ELSE e0
        e2 == IF alarm.level # LevelInfo /\ alarm.level # LevelWarning
                 /\ alarm.level # LevelCritical
              THEN Put(e1, "level", LevelMessage) ELSE e1
    IN  Result(e2)

\* device.F != nil on a DeviceUpdate: the patch is the map of its present fields
Present(device, f) == f \in DOMAIN device

\* func ValidateDeviceUpdate(device *models.DeviceUpdate) (bool, ValidationErrors)
ValidateDeviceUpdate(device) ==
    LET e0 == NoErrors
        e1 == IF Present(device, "name") /\ ~IsValidDeviceName(device.name)
              THEN Put(e0, "name", NameMessage) ELSE e0
        e2 == IF Present(device, "owned_by") /\ ~IsValidOwner(device.owned_by)
              THEN Put(e1, "owned_by", OwnerMessage) ELSE e1
        e3 == IF Present(device, "description")
                 /\ GoLen(device.description) > MaxDescriptionLength
              THEN Put(e2, "description", ExceedMessage(MaxDescriptionLength)) ELSE e2
        e4 == IF Present(device, "last_alarm_reason")
                 /\ GoLen(device.last_alarm_reason) > MaxLastAlarmReasonLength
              THEN Put(e3, "last_alarm_reason", ExceedMessage(MaxLastAlarmReasonLength)) ELSE e3
        e5 == IF Present(device, "device_type") /\ ~IsValidDeviceType(device.device_type)
              THEN Put(e4, "device_type", DeviceTypeMessage) ELSE e4
    IN  Result(e5)

-----------------------------------------------------------------------------
\* Inputs of the validation engine

\* lengths around a limit: empty, shortest, the limit itself and past it
Around(limit) == {0, 1, limit - 1, limit} \cup (limit + 1 .. limit + Over)

\* 'a', 'Z', '0', and the two-byte e-acute
NamePool ==
    {Rep(c, n) : c \in {97, 90, 48, 233}, n \in Around(MaxDeviceNameLength)}
    \cup {<<97, c, 97>> : c \in {32, 45, 95, 64, 47, 58, 91, 96, 123, 10, 233, 26085}}
    \cup {Rep(97, MaxDeviceNameLength - 1) \o <<c>> : c \in {32, 57, 233}}
    \* "Device@123", "Device123", "Device Name"
    \cup {<<68, 101, 118, 105, 99, 101, 64, 49, 50, 51>>,
          <<68, 101, 118, 105, 99, 101, 49, 50, 51>>,
          <<68, 101, 118, 105, 99, 101, 32, 78, 97, 109, 101>>}

\* 'a', space, and characters of two, three and four bytes
OwnerPool ==
    {Rep(c, n) : c \in {97, 32, 233, 26085, 128512},
                 n \in Around(MaxOwnerLength) \cup {MaxOwnerLength \div 2, MaxOwnerLength \div 2 + 1}}
    \* "owner1"
    \cup {<<111, 119, 110, 101, 114, 49>>}

DescriptionPool ==
    {Rep(c, n) : c \in {97, 233},
                 n \in Around(MaxDescriptionLength)
                       \cup {MaxDescriptionLength \div 2, MaxDescriptionLength \div 2 + 1}}

ReasonPool ==
    {Rep(c, n) : c \in {97, 233},
                 n \in Around(MaxLastAlarmReasonLength)
                       \cup {MaxLastAlarmReasonLength \div 2, MaxLastAlarmReasonLength \div 2 + 1}}
    \* "Smoke detected"
    \cup {<<83, 109, 111, 107, 101, 32, 100, 101, 116, 101, 99, 116, 101, 100>>}

TypePool ==
    {GetAllDeviceTypes[i].ID : i \in 1..Len(GetAllDeviceTypes)}
    \cup {<<>>,
          \* "camera", "Camera", " CAMERA", "CAMERA ", "INVALID_TYPE", "LOCKS", "UNKNOW"
          <<99, 97, 109, 101, 114, 97>>,
          <<67, 97, 109, 101, 114, 97>>,
          <<32, 67, 65, 77, 69, 82, 65>>,
          <<67, 65, 77, 69, 82, 65, 32>>,
          <<73, 78, 86, 65, 76, 73, 68, 95, 84, 89, 80, 69>>,
          <<76, 79, 67, 75, 83>>,
          <<85, 78, 75, 78, 79, 87>>}

LevelPool ==
    {LevelInfo, LevelWarning, LevelCritical, <<>>,
     \* "info", "Info", "INFO ", "INVALID_LEVEL", "ERROR"
     <<105, 110, 102, 111>>,
     <<73, 110, 102, 111>>,
     <<73, 78, 70, 79, 32>>,
     <<73, 78, 86, 65, 76, 73, 68, 95, 76, 69, 86, 69, 76>>,
     <<69, 82, 82, 79, 82>>}

\* DeviceCreate bodies: every combination of a few values per field
DeviceCreates ==
    [name : {<<>>, <<68, 101, 118, 105, 99, 101, 49, 50, 51>>,
             <<68, 101, 118, 105, 99, 101, 64, 49, 50, 51>>}
            \cup {Rep(97, n) : n \in Around(MaxDeviceNameLength) \ {0, 1}},
     device_type : {DeviceTypeCamera, DeviceTypeUnknown, <<>>, <<99, 97, 109, 101, 114, 97>>},
     owned_by : {Rep(c, n) : c \in {97, 233},
                             n \in {0, MaxOwnerLength \div 2 + 1, MaxOwnerLength}
                                   \cup (MaxOwnerLength + 1 .. MaxOwnerLength + Over)},
     description : {Rep(c, n) : c \in {97, 233},
                                n \in {0, MaxDescriptionLength \div 2 + 1, MaxDescriptionLength}
                                      \cup (MaxDescriptionLength + 1 .. MaxDescriptionLength + Over)}]

AlarmRequests == [reason : ReasonPool, level : LevelPool]

\* the values a DeviceUpdate body may carry for each field when the field is present
PatchValues(f) ==
    CASE f = "name" -> {<<>>, <<68, 101, 118, 105, 99, 101, 49, 50, 51>>,
                        <<68, 101, 118, 105, 99, 101, 64, 49, 50, 51>>}
                       \cup {Rep(97, n) : n \in MaxDeviceNameLength .. MaxDeviceNameLength + Over}
      [] f = "owned_by" -> {<<>>, <<111, 119, 110, 101, 114, 49>>, Rep(233, MaxOwnerLength \div 2 + 1)}
                           \cup {Rep(97, n) : n \in MaxOwnerLength .. MaxOwnerLength + Over}
      [] f = "description" -> {<<>>, Rep(233, MaxDescriptionLength \div 2 + 1)}
                              \cup {Rep(97, n) : n \in MaxDescriptionLength .. MaxDescriptionLength + Over}
      [] f = "last_alarm_reason" -> {<<>>, Rep(233, MaxLastAlarmReasonLength \div 2 + 1)}
                                    \cup {Rep(97, n) : n \in MaxLastAlarmReasonLength .. MaxLastAlarmReasonLength + Over}
      [] f = "device_type" -> {DeviceTypeLock, <<>>, <<99, 97, 109, 101, 114, 97>>}
      [] f = "is_online" -> {TRUE, FALSE}

\* the fields of a DeviceUpdate
UpdateFields == {"name", "description", "is_online", "owned_by", "device_type", "last_alarm_reason"}

\* the set P of patches, each also extended by a present field f
WithField(P, f) == P \cup {Put(p, f, v) : p \in P, v \in PatchValues(f)}

\* DeviceUpdate bodies: every subset of present fields, every combination of values
DeviceUpdates ==
    WithField(WithField(WithField(WithField(WithField(WithField({NoErrors},
        "name"), "owned_by"), "description"), "last_alarm_reason"), "device_type"), "is_online")

Calls ==
    [fn : {"IsValidDeviceName"}, arg : NamePool]
    \cup [fn : {"IsValidOwner"}, arg : OwnerPool]
    \cup [fn : {"IsValidDeviceType"}, arg : TypePool]
    \cup [fn : {"GetAllDeviceTypes"}, arg : {<<>>}]
    \cup [fn : {"ValidateDeviceCreate"}, arg : DeviceCreates]
    \cup [fn : {"ValidateAlarmRequest"}, arg : AlarmRequests]
    \cup [fn : {"ValidateDeviceUpdate"}, arg : DeviceUpdates]
    \cup [fn : {"Update"}, arg : DeviceUpdates]

-----------------------------------------------------------------------------
\* Device record store (internal/repository/device_repository.go, pkg/database/sqlite.go)

\* the columns of the devices table that may hold NULL in a row this program reads
NullableColumns == {"last_alarm_reason", "last_alarm_time"}

\* a column of a row is NULL
IsNull(row, col) == col \notin DOMAIN row

\* UPDATE ... SET col = v, ... : the row with the columns of `set` overwritten
SetColumns(row, set) ==
    [c \in (DOMAIN row) \cup (DOMAIN set) |-> IF c \in DOMAIN set THEN set[c] ELSE row[c]]

\* the error of Scan for the first NULL column it meets among its string destinations:
\* sql: Scan error on column index 6, name "last_alarm_reason": converting NULL to string
\* is unsupported (index 7 for last_alarm_time)
ScanError(row) ==
    LET col == IF IsNull(row, "last_alarm_reason")
               THEN [index |-> 6,
                     name |-> <<108, 97, 115, 116, 95, 97, 108, 97, 114, 109, 95, 114, 101, 97,
                                115, 111, 110>>]
               ELSE [index |-> 7,
                     name |-> <<108, 97, 115, 116, 95, 97, 108, 97, 114, 109, 95, 116, 105, 109,
                                101>>]
    IN  <<115, 113, 108, 58, 32, 83, 99, 97, 110, 32, 101, 114, 114, 111, 114, 32, 111, 110, 32,
          99, 111, 108, 117, 109, 110, 32, 105, 110, 100, 101, 120, 32>>
        \o Itoa(col.index) \o <<44, 32, 110, 97, 109, 101, 32, 34>> \o col.name
        \o <<34, 58, 32, 99, 111, 110, 118, 101, 114, 116, 105, 110, 103, 32, 78, 85, 76, 76, 32,
             116, 111, 32, 115, 116, 114, 105, 110, 103, 32, 105, 115, 32, 117, 110, 115, 117,
             112, 112, 111, 114, 116, 101, 100>>

\* sql.ErrNoRows: "sql: no rows in result set"
ErrNoRows ==
    <<115, 113, 108, 58, 32, 110, 111, 32, 114, 111, 119, 115, 32, 105, 110, 32, 114, 101, 115,
      117, 108, 116, 32, 115, 101, 116>>

GetByID_NoRowsIsError(table, id) ==
    IF id \notin DOMAIN table
    THEN [kind |-> "err", err |-> ErrNoRows]
    ELSE IF \E c \in NullableColumns : IsNull(table[id], c)
    THEN [kind |-> "err", err |-> <<>>]
    ELSE [kind |-> "ok", device |-> SetColumns(table[id], [id |-> id])]

GetByID_ZeroRow(table, id) ==
    IF id \notin DOMAIN table
    THEN [kind |-> "ok",
          device |-> [id |-> 0, name |-> <<>>, description |-> <<>>, device_type |-> <<>>,
                      owned_by |-> <<>>, is_online |-> FALSE, last_alarm_reason |-> <<>>,
                      last_alarm_time |-> 0, created_at |-> 0, updated_at |-> 0]]
    ELSE IF \E c \in NullableColumns : IsNull(table[id], c)
    THEN [kind |-> "err", err |-> <<>>]
    ELSE [kind |-> "ok", device |-> SetColumns(table[id], [id |-> id])]

\* func (r *DeviceRepositoryImpl) GetByID(id int64) (*models.Device, error)
\* QueryRow(...).Scan(...) into string, bool and time-string destinations:
\* no row is (nil, nil); a NULL column cannot be scanned into a string and is an error
GetByID(table, id) ==
    IF id \notin DOMAIN table
    THEN [kind |-> "nil"]
    ELSE IF \E c \in NullableColumns : IsNull(table[id], c)
    THEN [kind |-> "err", err |-> ScanError(table[id])]
    ELSE [kind |-> "ok", device |-> SetColumns(table[id], [id |-> id])]

\* INSERT INTO devices (name, description, device_type, owned_by) VALUES (?, ?, ?, ?)
\* with the schema's defaults: is_online FALSE, created_at and updated_at CURRENT_TIMESTAMP,
\* last_alarm_reason and last_alarm_time NULL
InsertedRow(device, t) ==
    [name |-> device.name, description |-> device.description,
     device_type |-> device.device_type, owned_by |-> device.owned_by,
     is_online |-> FALSE, created_at |-> t, updated_at |-> t]

applyUpdate_DropAbsent(cur, device) ==
    [name |-> IF Present(device, "name") THEN device.name ELSE <<>>,
     description |-> IF Present(device, "description") THEN device.description ELSE <<>>,
     is_online |-> IF Present(device, "is_online") THEN device.is_online ELSE FALSE,
     owned_by |-> IF Present(device, "owned_by") THEN device.owned_by ELSE <<>>,
     device_type |-> IF Present(device, "device_type") THEN device.device_type ELSE <<>>,
     last_alarm_reason |-> IF Present(device, "last_alarm_reason")
                           THEN device.last_alarm_reason ELSE <<>>]

applyUpdate_AppendDescription(cur, device) ==
    [name |-> IF Present(device, "name") THEN device.name ELSE cur.name,
     description |-> IF Present(device, "description")
                     THEN cur.description \o device.description ELSE cur.description,
     is_online |-> IF Present(device, "is_online") THEN device.is_online ELSE cur.is_online,
     owned_by |-> IF Present(device, "owned_by") THEN device.owned_by ELSE cur.owned_by,
     device_type |-> IF Present(device, "device_type")
                     THEN device.device_type ELSE cur.device_type,
     last_alarm_reason |-> IF Present(device, "last_alarm_reason")
                           THEN device.last_alarm_reason ELSE cur.last_alarm_reason]

\* Update, lines 135-159: the six values bound to the UPDATE statement
applyUpdate(cur, device) ==
    LET name0 == cur.name
        description0 == cur.description
        isOnline0 == cur.is_online
        ownedBy0 == cur.owned_by
        deviceType0 == cur.device_type
        lastAlarmReason0 == cur.last_alarm_reason
    IN  [name |-> IF Present(device, "name") THEN device.name ELSE name0,
         description |-> IF Present(device, "description") THEN device.description ELSE description0,
         is_online |-> IF Present(device, "is_online") THEN device.is_online ELSE isOnline0,
         owned_by |-> IF Present(device, "owned_by") THEN device.owned_by ELSE ownedBy0,
         device_type |-> IF Present(device, "device_type") THEN device.device_type ELSE deviceType0,
         last_alarm_reason |-> IF Present(device, "last_alarm_reason")
                               THEN device.last_alarm_reason ELSE lastAlarmReason0]

ExecUpdate_TouchAlarmTime(table, id, args, t) ==
    IF id \in DOMAIN table
    THEN [table EXCEPT ![id] = SetColumns(@, SetColumns(args, [updated_at |-> t,
                                                               last_alarm_time |-> t]))]
    ELSE table

\* UPDATE devices SET name = ?, description = ?, device_type = ?, is_online = ?, owned_by = ?,
\*   last_alarm_reason = ?, updated_at = CURRENT_TIMESTAMP WHERE id = ?
ExecUpdate(table, id, args, t) ==
    IF id \in DOMAIN table
    THEN [table EXCEPT ![id] = SetColumns(@, SetColumns(args, [updated_at |-> t]))]
    ELSE table

\* func (r *DeviceRepositoryImpl) Update(id int64, device *models.DeviceUpdate) error,
\* run from its read to its write with nothing in between: the table it leaves and the
\* error it returns
Update(table, id, device, t) ==
    LET currentDevice == GetByID(table, id)
    IN  IF currentDevice.kind = "err"
        THEN [table |-> table, err |-> currentDevice.err]
        ELSE IF currentDevice.kind = "nil"
        THEN [table |-> table, err |-> ErrNoRows]
        ELSE [table |-> ExecUpdate(table, id, applyUpdate(currentDevice.device, device), t),
              err |-> <<>>]

\* DELETE FROM devices WHERE id = ?
ExecDelete(table, id) == [i \in (DOMAIN table) \ {id} |-> table[i]]

ExecTriggerAlarm_StaleUpdatedAt(table, id, reason, t) ==
    IF id \in DOMAIN table
    THEN [table EXCEPT ![id] = SetColumns(@, [last_alarm_reason |-> reason,
                                               last_alarm_time |-> t])]
    ELSE table

\* UPDATE devices SET last_alarm_reason = ?, last_alarm_time = CURRENT_TIMESTAMP,
\*   updated_at = CURRENT_TIMESTAMP WHERE id = ?
ExecTriggerAlarm(table, id, reason, t) ==
    IF id \in DOMAIN table
    THEN [table EXCEPT ![id] = SetColumns(@, [last_alarm_reason |-> reason,
                                               last_alarm_time |-> t, updated_at |-> t])]
    ELSE table

FormatReason_NoSpace(alarm) == <<91>> \o alarm.level \o <<93>> \o alarm.reason

\* fmt.Sprintf("[%s] %s", alarm.Level, alarm.Reason)
FormatReason(alarm) == <<91>> \o alarm.level \o <<93, 32>> \o alarm.reason

\* fmt.Sprintf("device not found with ID: %d", id)
DeviceNotFoundError(id) ==
    <<100, 101, 118, 105, 99, 101, 32, 110, 111, 116, 32, 102, 111, 117, 110, 100, 32, 119, 105,
      116, 104, 32, 73, 68, 58, 32>> \o (IF id < 0 THEN <<45>> \o Itoa(0 - id) ELSE Itoa(id))

TriggerAlarmLookup_NoNilCheck(table, id, alarm) ==
    LET device == GetByID(table, id)
    IN  IF device.kind = "err"
        THEN [kind |-> "return", err |-> device.err]
        ELSE [kind |-> "write", id |-> id, formattedReason |-> FormatReason(alarm)]

\* func (s *DeviceService) TriggerAlarm, lines 48-57: the lookup, its two early returns
\* and the formatting; "write" is the call of the store's TriggerAlarm still to be made
TriggerAlarmLookup(table, id, alarm) ==
    LET device == GetByID(table, id)
    IN  IF device.kind = "err"
        THEN [kind |-> "return", err |-> device.err]
        ELSE IF device.kind = "nil"
        THEN [kind |-> "return", err |-> DeviceNotFoundError(id)]
        ELSE [kind |-> "write", id |-> id, formattedReason |-> FormatReason(alarm)]

-----------------------------------------------------------------------------
\* Request handlers (package handlers)

RECURSIVE Atoi(_)
Atoi(s) == IF Len(s) = 0 THEN 0 ELSE 10 * Atoi(SubSeq(s, 1, Len(s) - 1)) + (s[Len(s)] - 48)

\* strconv.ParseInt(idStr, 10, 64): an optional sign, then one or more decimal digits
ParseInt(s) ==
    LET signed == Len(s) >= 1 /\ s[1] \in {43, 45}
        digits == IF signed THEN Tail(s) ELSE s
    IN  IF Len(digits) >= 1 /\ \A i \in 1..Len(digits) : digits[i] >= 48 /\ digits[i] <= 57
        THEN [ok |-> TRUE,
              value |-> IF signed /\ s[1] = 45 THEN 0 - Atoi(digits) ELSE Atoi(digits)]
        ELSE [ok |-> FALSE]

\* "invalid device ID"
InvalidDeviceIDMessage ==
    <<105, 110, 118, 97, 108, 105, 100, 32, 100, 101, 118, 105, 99, 101, 32, 73, 68>>

\* the struct fields tagged binding:"required" that hold their zero value, in struct order
MissingRequired(body, required) == SelectSeq(required, LAMBDA f : body[f.json] = <<>>)

\* the validator's message for the failed required tags, one line per field:
\* Key: 'T.F' Error:Field validation for 'F' failed on the 'required' tag
RequiredError(struct, missing) ==
    Join([i \in 1..Len(missing) |->
            <<75, 101, 121, 58, 32, 39>> \o struct \o <<46>> \o missing[i].go
            \o <<39, 32, 69, 114, 114, 111, 114, 58, 70, 105, 101, 108, 100, 32, 118, 97, 108,
                 105, 100, 97, 116, 105, 111, 110, 32, 102, 111, 114, 32, 39>> \o missing[i].go
            \o <<39, 32, 102, 97, 105, 108, 101, 100, 32, 111, 110, 32, 116, 104, 101, 32, 39,
                 114, 101, 113, 117, 105, 114, 101, 100, 39, 32, 116, 97, 103>>],
         <<10>>)

\* c.ShouldBindJSON(&deviceCreate): Name, DeviceType and OwnedBy are required
BindDeviceCreate(body) ==
    LET missing == MissingRequired(body,
                     <<[json |-> "name", go |-> <<78, 97, 109, 101>>],
                       [json |-> "device_type",
                        go |-> <<68, 101, 118, 105, 99, 101, 84, 121, 112, 101>>],
                       [json |-> "owned_by", go |-> <<79, 119, 110, 101, 100, 66, 121>>]>>)
    IN  [ok |-> Len(missing) = 0,
         err |-> RequiredError(<<68, 101, 118, 105, 99, 101, 67, 114, 101, 97, 116, 101>>,
                               missing)]

\* c.ShouldBindJSON(&alarmRequest): Reason and Level are required
BindAlarmRequest(body) ==
    LET missing == MissingRequired(body,
                     <<[json |-> "reason", go |-> <<82, 101, 97, 115, 111, 110>>],
                       [json |-> "level", go |-> <<76, 101, 118, 101, 108>>]>>)
    IN  [ok |-> Len(missing) = 0,
         err |-> RequiredError(<<65, 108, 97, 114, 109, 82, 101, 113, 117, 101, 115, 116>>,
                               missing)]

Procs == 1..NumProcs

\* the :id path parameters requests carry: every id the table can hold, and "abc"
IdParams == {Itoa(i) : i \in 1..MaxSeq} \cup {<<97, 98, 99>>}

\* no request in progress
Idle == [op |-> "none"]

\* no response written yet
NoResp == [status |-> 0]

StatusOK == 200
StatusCreated == 201
StatusNoContent == 204
StatusBadRequest == 400
StatusNotFound == 404
StatusInternalServerError == 500

\* "device not found"
DeviceNotFoundMessage ==
    <<100, 101, 118, 105, 99, 101, 32, 110, 111, 116, 32, 102, 111, 117, 110, 100>>

AlarmErrorResponse_AlwaysInternal(id, err) ==
    [status |-> StatusInternalServerError, error |-> err]

\* triggerDeviceAlarm, lines 396-404: the response to an error of the service
AlarmErrorResponse(id, err) ==
    IF err = DeviceNotFoundError(id)
    THEN [status |-> StatusNotFound, error |-> err]
    ELSE [status |-> StatusInternalServerError, error |-> err]

-----------------------------------------------------------------------------
\* Requests the handlers are driven with

\* a row an earlier run of the server left in the database file: it has raised an alarm
SeedRow ==
    [name |-> <<68, 101, 118, 105, 99, 101, 49, 50, 51>>,      \* "Device123"
     description |-> <<100, 111, 111, 114>>,                   \* "door"
     device_type |-> DeviceTypeCamera,
     owned_by |-> <<111, 119, 110, 101, 114, 49>>,             \* "owner1"
     is_online |-> FALSE,
     last_alarm_reason |-> <<91, 73, 78, 70, 79, 93, 32, 116, 101, 115, 116>>,  \* "[INFO] test"
     last_alarm_time |-> 1, created_at |-> 1, updated_at |-> 1]

EmptyTable == [i \in {} |-> SeedRow]
SeededTable == [i \in {1} |-> SeedRow]

\* POST /api/devices bodies: a valid one, the one failing every field's constraint,
\* and one without its required owned_by
Creates ==
    {[name |-> <<76, 111, 99, 107, 55>>,                       \* "Lock7"
      description |-> <<>>,
      device_type |-> DeviceTypeLock,
      owned_by |-> <<111, 119, 110, 101, 114, 49>>],
     [name |-> <<68, 101, 118, 105, 99, 101, 64, 49, 50, 51>>, \* "Device@123"
      description |-> Rep(97, MaxDescriptionLength + 1),
      device_type |-> <<73, 78, 86, 65, 76, 73, 68, 95, 84, 89, 80, 69>>,
      owned_by |-> Rep(97, MaxOwnerLength + 1)],
     [name |-> <<76, 111, 99, 107, 55>>,
      description |-> <<>>,
      device_type |-> DeviceTypeLock,
      owned_by |-> <<>>]}

\* PUT /api/devices/:id bodies
Patches ==
    {NoErrors,
     [is_online |-> TRUE],
     [name |-> <<68, 101, 118, 105, 99, 101, 64, 49, 50, 51>>,  \* "Device@123"
      device_type |-> <<99, 97, 109, 101, 114, 97>>,            \* "camera"
      is_online |-> FALSE,
      last_alarm_reason |-> <<>>]}

\* POST /api/devices/:id/alarm bodies
Alarms ==
    {[reason |-> <<83, 109, 111, 107, 101, 32, 100, 101, 116, 101, 99, 116, 101, 100>>,
      level |-> LevelCritical],                                 \* "Smoke detected"
     [reason |-> <<120>>, level |-> <<73, 78, 86, 65, 76, 73, 68, 95, 76, 69, 86, 69, 76>>],
     [reason |-> <<>>, level |-> LevelInfo]}

-----------------------------------------------------------------------------
\* Handlers, one request goroutine p at a time; a handler that reads the store and
\* then writes it takes two steps, and other goroutines may run between them

Respond(r) == resp' = r

createDevice_PersistFirst(p, device) ==
    /\ pc[p] = "idle"
    /\ LET b == BindDeviceCreate(device)
           v == ValidateDeviceCreate(device)
       IN  IF ~b.ok
           THEN /\ Respond([status |-> StatusBadRequest, error |-> b.err])
                /\ UNCHANGED <<db, seq>>
           ELSE /\ seq < MaxSeq
                /\ db' = [i \in (DOMAIN db) \cup {seq + 1} |->
                            IF i = seq + 1 THEN InsertedRow(device, now) ELSE db[i]]
                /\ seq' = seq + 1
                /\ IF ~v.ok
                   THEN Respond([status |-> StatusBadRequest, errors |-> v.errors])
                   ELSE Respond([status |-> StatusCreated, id |-> seq + 1])
    /\ UNCHANGED <<call, ret, done, now, pc, req>>

\* func (h *Handler) createDevice(c *gin.Context), with DeviceService.CreateDevice and Create
createDevice(p, device) ==
    /\ pc[p] = "idle"
    /\ LET b == BindDeviceCreate(device)
           v == ValidateDeviceCreate(device)
       IN  IF ~b.ok
           THEN /\ Respond([status |-> StatusBadRequest, error |-> b.err])
                /\ UNCHANGED <<db, seq>>
           ELSE IF ~v.ok
           THEN /\ Respond([status |-> StatusBadRequest, errors |-> v.errors])
                /\ UNCHANGED <<db, seq>>
           ELSE /\ seq < MaxSeq
                /\ db' = [i \in (DOMAIN db) \cup {seq + 1} |->
                            IF i = seq + 1 THEN InsertedRow(device, now) ELSE db[i]]
                /\ seq' = seq + 1
                /\ Respond([status |-> StatusCreated, id |-> seq + 1])
    /\ UNCHANGED <<call, ret, done, now, pc, req>>

\* func (h *Handler) getDeviceByID(c *gin.Context), with DeviceService.GetDeviceByID
getDeviceByID(p, idStr) ==
    /\ pc[p] = "idle"
    /\ LET id == ParseInt(idStr)
           r == GetByID(db, id.value)
       IN  IF ~id.ok
           THEN Respond([status |-> StatusBadRequest, error |-> InvalidDeviceIDMessage])
           ELSE IF r.kind = "err"
           THEN Respond([status |-> StatusInternalServerError, error |-> r.err])
           ELSE IF r.kind = "nil"
           THEN Respond([status |-> StatusNotFound, error |-> DeviceNotFoundMessage])
           ELSE Respond([status |-> StatusOK, device |-> r.device])
    /\ UNCHANGED <<call, ret, done, db, seq, now, pc, req>>

\* func (h *Handler) updateDevice(c *gin.Context), with DeviceService.UpdateDevice and
\* Update from r.GetByID(id) to the merge of the patch into the locals name, description,
\* isOnline, ownedBy, deviceType, lastAlarmReason
updateDevice(p, idStr, device) ==
    /\ pc[p] = "idle"
    /\ LET id == ParseInt(idStr)
           r == GetByID(db, id.value)
       IN  IF ~id.ok
           THEN /\ Respond([status |-> StatusBadRequest, error |-> InvalidDeviceIDMessage])
                /\ UNCHANGED <<pc, req>>
           ELSE IF r.kind # "ok"
           THEN \* Update returns the scan error, or sql.ErrNoRows for no row
                /\ Respond([status |-> StatusInternalServerError,
                            error |-> IF r.kind = "nil" THEN ErrNoRows ELSE r.err])
                /\ UNCHANGED <<pc, req>>
           ELSE /\ pc' = [pc EXCEPT ![p] = "update_exec"]
                /\ req' = [req EXCEPT ![p] = [op |-> "update", id |-> id.value, device |-> device,
                                             args |-> applyUpdate(r.device, device)]]
                /\ UNCHANGED resp
    /\ UNCHANGED <<call, ret, done, db, seq, now>>

\* Update's r.db.Exec(query, name, description, ...), and updateDevice's response
updateExec(p) ==
    /\ pc[p] = "update_exec"
    /\ db' = ExecUpdate(db, req[p].id, req[p].args, now)
    /\ Respond([status |-> StatusNoContent])
    /\ pc' = [pc EXCEPT ![p] = "idle"]
    /\ req' = [req EXCEPT ![p] = Idle]
    /\ UNCHANGED <<call, ret, done, seq, now>>

\* func (h *Handler) deleteDevice(c *gin.Context), with DeviceService.DeleteDevice and Delete
deleteDevice(p, idStr) ==
    /\ pc[p] = "idle"
    /\ LET id == ParseInt(idStr)
       IN  IF ~id.ok
           THEN /\ Respond([status |-> StatusBadRequest, error |-> InvalidDeviceIDMessage])
                /\ UNCHANGED db
           ELSE /\ db' = ExecDelete(db, id.value)
                /\ Respond([status |-> StatusNoContent])
    /\ UNCHANGED <<call, ret, done, seq, now, pc, req>>

\* func (h *Handler) triggerDeviceAlarm(c *gin.Context), with DeviceService.TriggerAlarm,
\* up to and including its s.repo.GetByID(id) and the formatting of the reason
triggerDeviceAlarm(p, idStr, alarm) ==
    /\ pc[p] = "idle"
    /\ LET id == ParseInt(idStr)
           b == BindAlarmRequest(alarm)
           v == ValidateAlarmRequest(alarm)
           s == TriggerAlarmLookup(db, id.value, alarm)
       IN  IF ~id.ok
           THEN /\ Respond([status |-> StatusBadRequest, error |-> InvalidDeviceIDMessage])
                /\ UNCHANGED <<pc, req>>
           ELSE IF ~b.ok
           THEN /\ Respond([status |-> StatusBadRequest, error |-> b.err])
                /\ UNCHANGED <<pc, req>>
           ELSE IF ~v.ok
           THEN /\ Respond([status |-> StatusBadRequest, errors |-> v.errors])
                /\ UNCHANGED <<pc, req>>
           ELSE IF s.kind = "return"
           THEN /\ Respond(AlarmErrorResponse(id.value, s.err))
                /\ UNCHANGED <<pc, req>>
           ELSE /\ pc' = [pc EXCEPT ![p] = "alarm_exec"]
                /\ req' = [req EXCEPT ![p] = [op |-> "alarm", id |-> id.value, alarm |-> alarm,
                                             formattedReason |-> s.formattedReason]]
                /\ UNCHANGED resp
    /\ UNCHANGED <<call, ret, done, db, seq, now>>

\* DeviceService.TriggerAlarm's s.repo.TriggerAlarm(id, formattedReason), and the response
alarmExec(p) ==
    /\ pc[p] = "alarm_exec"
    /\ db' = ExecTriggerAlarm(db, req[p].id, req[p].formattedReason, now)
    /\ Respond([status |-> StatusNoContent])
    /\ pc' = [pc EXCEPT ![p] = "idle"]
    /\ req' = [req EXCEPT ![p] = Idle]
    /\ UNCHANGED <<call, ret, done, seq, now>>

\* the store's clock advances
Tick ==
    /\ now < MaxClock
    /\ now' = now + 1
    /\ UNCHANGED <<call, ret, done, db, seq, pc, req, resp>>

\* the server starts on the database file at DB_PATH: a fresh one, or one holding a row
Init ==
    /\ call = [fn |-> "none"]
    /\ ret = <<>>
    /\ done = TRUE
    /\ db \in {EmptyTable, SeededTable}
    /\ seq = Cardinality(DOMAIN db)
    /\ now = 1
    /\ pc = [p \in Procs |-> "idle"]
    /\ req = [p \in Procs |-> Idle]
    /\ resp = NoResp

Next ==
    \/ \E p \in Procs, device \in Creates : createDevice(p, device)
    \/ \E p \in Procs, idStr \in IdParams : getDeviceByID(p, idStr)
    \/ \E p \in Procs, idStr \in IdParams, device \in Patches : updateDevice(p, idStr, device)
    \/ \E p \in Procs : updateExec(p)
    \/ \E p \in Procs, idStr \in IdParams : deleteDevice(p, idStr)
    \/ \E p \in Procs, idStr \in IdParams, alarm \in Alarms : triggerDeviceAlarm(p, idStr, alarm)
    \/ \E p \in Procs : alarmExec(p)
    \/ Tick

Spec == Init /\ [][Next]_vars

-----------------------------------------------------------------------------
\* The pure functions of the registry and the validation engine, each applied to one
\* input drawn from the pools

Evaluate(fn, result) ==
    /\ ~done
    /\ call.fn = fn
    /\ ret' = result
    /\ done' = TRUE
    /\ UNCHANGED <<call, db, seq, now, pc, req, resp>>

CallIsValidDeviceName == Evaluate("IsValidDeviceName", IsValidDeviceName(call.arg))

CallIsValidOwner == Evaluate("IsValidOwner", IsValidOwner(call.arg))

CallIsValidDeviceType ==
    Evaluate("IsValidDeviceType",
             [IsValid |-> IsValid(call.arg), IsValidDeviceType |-> IsValidDeviceType(call.arg)])

CallGetAllDeviceTypes == Evaluate("GetAllDeviceTypes", GetAllDeviceTypes)

CallValidateDeviceCreate == Evaluate("ValidateDeviceCreate", ValidateDeviceCreate(call.arg))

CallValidateAlarmRequest == Evaluate("ValidateAlarmRequest", ValidateAlarmRequest(call.arg))

CallValidateDeviceUpdate == Evaluate("ValidateDeviceUpdate", ValidateDeviceUpdate(call.arg))

\* Update called with the patch on the seeded device, and then once more with it
CallUpdate ==
    LET once == Update(SeededTable, 1, call.arg, 1).table
        twice == Update(once, 1, call.arg, MaxClock).table
    IN  Evaluate("Update", [once |-> once[1], twice |-> twice[1]])

InitValidation ==
    /\ call \in Calls
    /\ ret = <<>>
    /\ done = FALSE
    /\ db = EmptyTable
    /\ seq = 0
    /\ now = 1
    /\ pc = [p \in Procs |-> "idle"]
    /\ req = [p \in Procs |-> Idle]
    /\ resp = NoResp

NextValidation ==
    \/ CallIsValidDeviceName
    \/ CallIsValidOwner
    \/ CallIsValidDeviceType
    \/ CallGetAllDeviceTypes
    \/ CallValidateDeviceCreate
    \/ CallValidateAlarmRequest
    \/ CallValidateDeviceUpdate
    \/ CallUpdate

SpecValidation == InitValidation /\ [][NextValidation]_vars

-----------------------------------------------------------------------------
\* The service's TriggerAlarm called once on a store, which logs the calls it receives
\* and may fail the alarm write

\* the goroutine that makes the call
Caller == 1

\* a nil error, and an error with its message
Nil == [isNil |-> TRUE]
Err(msg) == [isNil |-> FALSE, msg |-> msg]

\* a failure of the store's Exec: "database is locked"
ExecError ==
    <<100, 97, 116, 97, 98, 97, 115, 101, 32, 105, 115, 32, 108, 111, 99, 107, 101, 100>>

\* a stored device on which no alarm has been triggered yet
FreshTable ==
    [i \in {1} |-> InsertedRow([name |-> SeedRow.name, description |-> SeedRow.description,
                                device_type |-> SeedRow.device_type,
                                owned_by |-> SeedRow.owned_by], 1)]

\* the ids TriggerAlarm is called with: the stored device's and one not stored
ServiceIds == 1..MaxSeq

\* TriggerAlarm up to its call of the store's TriggerAlarm: s.repo.GetByID(id), the two
\* early returns, and the formatting
TriggerAlarm ==
    /\ ~done
    /\ call.fn = "TriggerAlarm"
    /\ pc[Caller] = "idle"
    /\ LET s == TriggerAlarmLookup(db, call.id, call.alarm)
           lookup == [fn |-> "GetByID", id |-> call.id]
       IN  IF s.kind = "return"
           THEN /\ ret' = [calls |-> Append(ret.calls, lookup), err |-> Err(s.err)]
                /\ done' = TRUE
                /\ UNCHANGED <<pc, req>>
           ELSE /\ ret' = [calls |-> Append(ret.calls, lookup)]
                /\ pc' = [pc EXCEPT ![Caller] = "alarm_exec"]
                /\ req' = [req EXCEPT ![Caller] =
                              [op |-> "alarm", id |-> s.id, alarm |-> call.alarm,
                               formattedReason |-> s.formattedReason]]
                /\ UNCHANGED done
    /\ UNCHANGED <<call, db, seq, now, resp>>

TriggerAlarmWrite_MaskError(fails) ==
    /\ ~done
    /\ pc[Caller] = "alarm_exec"
    /\ ret' = [calls |-> Append(ret.calls, [fn |-> "TriggerAlarm", id |-> req[Caller].id,
                                            reason |-> req[Caller].formattedReason]),
               err |-> Nil]
    /\ db' = IF fails THEN db
             ELSE ExecTriggerAlarm(db, req[Caller].id, req[Caller].formattedReason, now)
    /\ done' = TRUE
    /\ pc' = [pc EXCEPT ![Caller] = "idle"]
    /\ req' = [req EXCEPT ![Caller] = Idle]
    /\ UNCHANGED <<call, seq, now, resp>>

\* return s.repo.TriggerAlarm(id, formattedReason): the store executes its statement or
\* fails, and TriggerAlarm returns what the store returned
TriggerAlarmWrite(fails) ==
    /\ ~done
    /\ pc[Caller] = "alarm_exec"
    /\ ret' = [calls |-> Append(ret.calls, [fn |-> "TriggerAlarm", id |-> req[Caller].id,
                                            reason |-> req[Caller].formattedReason]),
               err |-> IF fails THEN Err(ExecError) ELSE Nil]
    /\ db' = IF fails THEN db
             ELSE ExecTriggerAlarm(db, req[Caller].id, req[Caller].formattedReason, now)
    /\ done' = TRUE
    /\ pc' = [pc EXCEPT ![Caller] = "idle"]
    /\ req' = [req EXCEPT ![Caller] = Idle]
    /\ UNCHANGED <<call, seq, now, resp>>

InitService ==
    /\ call \in [fn : {"TriggerAlarm"}, id : ServiceIds, alarm : AlarmRequests]
    /\ ret = [calls |-> <<>>]
    /\ done = FALSE
    /\ db \in {EmptyTable, SeededTable, FreshTable}
    /\ seq = Cardinality(DOMAIN db)
    /\ now \in 1..MaxClock
    /\ pc = [p \in Procs |-> "idle"]
    /\ req = [p \in Procs |-> Idle]
    /\ resp = NoResp

NextService ==
    \/ TriggerAlarm
    \/ \E fails \in BOOLEAN : TriggerAlarmWrite(fails)

SpecService == InitService /\ [][NextService]_vars

-----------------------------------------------------------------------------
\* Field constraints as the specification's table states them. L is the length the
\* constraint counts: CharCount for the table's "character count, not byte count".

SixIdentifiers ==
    {<<67, 65, 77, 69, 82, 65>>,                                 \* "CAMERA"
     <<84, 72, 69, 82, 77, 79, 83, 84, 65, 84>>,                 \* "THERMOSTAT"
     <<83, 77, 79, 75, 69, 95, 68, 69, 84, 69, 67, 84, 79, 82>>, \* "SMOKE_DETECTOR"
     <<77, 79, 84, 73, 79, 78, 95, 83, 69, 78, 83, 79, 82>>,     \* "MOTION_SENSOR"
     <<76, 79, 67, 75>>,                                         \* "LOCK"
     <<85, 78, 75, 78, 79, 87, 78>>}                             \* "UNKNOWN"

ThreeLevels ==
    {<<73, 78, 70, 79>>,                                         \* "INFO"
     <<87, 65, 82, 78, 73, 78, 71>>,                             \* "WARNING"
     <<67, 82, 73, 84, 73, 67, 65, 76>>}                         \* "CRITICAL"

AllAlphanumeric(s) ==
    \A i \in 1..Len(s) : s[i] \in (48..57) \cup (65..90) \cup (97..122)

ConstraintHolds(L(_), f, v) ==
    CASE f = "name" -> L(v) >= 1 /\ L(v) <= 100 /\ AllAlphanumeric(v)
      [] f = "owned_by" -> L(v) >= 1 /\ L(v) <= 50
      [] f = "description" -> L(v) <= 500
      [] f = "device_type" -> v \in SixIdentifiers
      [] f = "last_alarm_reason" -> L(v) <= 200
      [] f = "reason" -> L(v) >= 1 /\ L(v) <= 200
      [] f = "level" -> v \in ThreeLevels
      [] OTHER -> TRUE

\* the fields of a body, among those a validator checks, whose constraint fails
FailingFields(L(_), checked, body) ==
    {f \in checked \cap DOMAIN body : ~ConstraintHolds(L, f, body[f])}

Evaluated(fn) == done /\ call.fn = fn

ReportsExactly(L(_), checked) ==
    /\ DOMAIN ret.errors = FailingFields(L, checked, call.arg)
    /\ ret.ok <=> (DOMAIN ret.errors = {})

-----------------------------------------------------------------------------
\* Claims about the validation engine and the registry, checked under SpecValidation

\* C1: validateDeviceCreate reports exactly the fields among name, device_type, owned_by,
\* description whose constraint (lengths in characters) fails, all of them at once, and
\* ok is true iff the error map is empty.
C1_CreateReportsExactlyFailingFields ==
    Evaluated("ValidateDeviceCreate") =>
        ReportsExactly(CharCount, {"name", "device_type", "owned_by", "description"})

\* What does hold of ValidateDeviceCreate: the same statement with every length counted
\* in bytes, as len() counts it.
CreateReportsExactlyFailingFieldsInBytes ==
    Evaluated("ValidateDeviceCreate") =>
        ReportsExactly(GoLen, {"name", "device_type", "owned_by", "description"})

\* C2: validateDeviceUpdate reports a field iff it is present in the patch and violates
\* its constraint (lengths in characters); absent fields and is_online are never reported;
\* ok is true iff the error map is empty.
C2_UpdateReportsExactlyPresentFailingFields ==
    Evaluated("ValidateDeviceUpdate") =>
        ReportsExactly(CharCount,
                       {"name", "owned_by", "description", "device_type", "last_alarm_reason"})

\* What does hold of ValidateDeviceUpdate: the same statement with lengths in bytes.
UpdateReportsExactlyPresentFailingFieldsInBytes ==
    Evaluated("ValidateDeviceUpdate") =>
        ReportsExactly(GoLen,
                       {"name", "owned_by", "description", "device_type", "last_alarm_reason"})

\* C3: validateAlarmRequest reports reason iff the reason is empty or longer than 200
\* characters, level iff the level is not exactly INFO, WARNING or CRITICAL, nothing else,
\* and ok is true iff the error map is empty.
C3_AlarmChecksIndependent ==
    Evaluated("ValidateAlarmRequest") => ReportsExactly(CharCount, {"reason", "level"})

\* What does hold of ValidateAlarmRequest: the same statement with lengths in bytes.
AlarmChecksIndependentInBytes ==
    Evaluated("ValidateAlarmRequest") => ReportsExactly(GoLen, {"reason", "level"})

\* C4: IsValidDeviceName(name) is true iff name has between 1 and 100 characters and
\* every character is in [A-Za-z0-9].
C4_DeviceNameValidIff ==
    Evaluated("IsValidDeviceName") =>
        (ret <=> ConstraintHolds(CharCount, "name", call.arg))

\* C4 witness: a 100-character alphanumeric name has been accepted
C4_Witness ==
    /\ Evaluated("IsValidDeviceName")
    /\ CharCount(call.arg) = 100
    /\ ret = TRUE

\* C5: IsValidOwner(owner) is true iff owner has between 1 and 50 characters, counted in
\* characters and not in bytes, whatever the characters.
C5_OwnerValidIffCharCount ==
    Evaluated("IsValidOwner") =>
        (ret <=> ConstraintHolds(CharCount, "owned_by", call.arg))

\* What does hold of IsValidOwner: between 1 and 50 bytes.
OwnerValidIffByteCount ==
    Evaluated("IsValidOwner") =>
        (ret <=> ConstraintHolds(GoLen, "owned_by", call.arg))

\* C6: DeviceType(t).IsValid() and IsValidDeviceType(t) are both true iff t is exactly one
\* of the six identifiers, compared case-sensitively and without trimming.
C6_TypeValidIffOneOfSix ==
    Evaluated("IsValidDeviceType") =>
        /\ ret.IsValid <=> (call.arg \in SixIdentifiers)
        /\ ret.IsValidDeviceType <=> (call.arg \in SixIdentifiers)

\* C6 witness: the lowercase "camera" has been rejected by both
C6_Witness ==
    /\ Evaluated("IsValidDeviceType")
    /\ call.arg = <<99, 97, 109, 101, 114, 97>>
    /\ ~ret.IsValid /\ ~ret.IsValidDeviceType

\* C7: GetAllDeviceTypes returns six entries in the order CAMERA, THERMOSTAT,
\* SMOKE_DETECTOR, MOTION_SENSOR, LOCK, UNKNOWN, each with a non-empty display name and
\* description, with pairwise distinct ids that are exactly the values IsValid accepts.
C7_AllTypesSixInOrder ==
    Evaluated("GetAllDeviceTypes") =>
        /\ Len(ret) = 6
        /\ [i \in 1..Len(ret) |-> ret[i].ID] =
              << <<67, 65, 77, 69, 82, 65>>,
                 <<84, 72, 69, 82, 77, 79, 83, 84, 65, 84>>,
                 <<83, 77, 79, 75, 69, 95, 68, 69, 84, 69, 67, 84, 79, 82>>,
                 <<77, 79, 84, 73, 79, 78, 95, 83, 69, 78, 83, 79, 82>>,
                 <<76, 79, 67, 75>>,
                 <<85, 78, 75, 78, 79, 87, 78>> >>
        /\ \A i \in 1..Len(ret) : Len(ret[i].DisplayName) > 0 /\ Len(ret[i].Description) > 0
        /\ \A i, j \in 1..Len(ret) : ret[i].ID = ret[j].ID => i = j
        /\ \A t \in TypePool \cup {ret[i].ID : i \in 1..Len(ret)} :
              IsValid(t) <=> (\E i \in 1..Len(ret) : ret[i].ID = t)

\* C7 witness: the registry has been listed
C7_Witness ==
    /\ Evaluated("GetAllDeviceTypes")
    /\ Len(ret) = 6
    /\ ret[6].ID = <<85, 78, 75, 78, 79, 87, 78>>

\* "must be one of: CAMERA, THERMOSTAT, SMOKE_DETECTOR, MOTION_SENSOR, LOCK, UNKNOWN"
SixIdentifiersMessage ==
    <<109, 117, 115, 116, 32, 98, 101, 32, 111, 110, 101, 32, 111, 102, 58, 32,
      67, 65, 77, 69, 82, 65, 44, 32, 84, 72, 69, 82, 77, 79, 83, 84, 65, 84,
      44, 32, 83, 77, 79, 75, 69, 95, 68, 69, 84, 69, 67, 84, 79, 82, 44, 32,
      77, 79, 84, 73, 79, 78, 95, 83, 69, 78, 83, 79, 82, 44, 32, 76, 79, 67,
      75, 44, 32, 85, 78, 75, 78, 79, 87, 78>>

\* C26: whenever validateDeviceCreate or validateDeviceUpdate reports device_type, the
\* message is "must be one of: " followed by the six identifiers joined by ", " in
\* registry order, whatever the rejected value and the other fields are.
C26_DeviceTypeMessageListsRegistry ==
    (/\ Evaluated("ValidateDeviceCreate") \/ Evaluated("ValidateDeviceUpdate")
     /\ "device_type" \in DOMAIN ret.errors) =>
        ret.errors["device_type"] = SixIdentifiersMessage

\* C26 witness: a patch whose only present field is the device_type "camera" has been
\* validated and device_type reported
C26_Witness ==
    /\ Evaluated("ValidateDeviceUpdate")
    /\ call.arg = [device_type |-> <<99, 97, 109, 101, 114, 97>>]
    /\ DOMAIN ret.errors = {"device_type"}

\* C25: the update merge is idempotent on the six mutable fields: after the same patch
\* is applied to a device twice in sequence the six fields equal their values after it
\* was applied once, and a patch with no present field leaves all six equal to the
\* baseline.
C25_UpdateMergeIdempotent ==
    Evaluated("Update") =>
        \A f \in UpdateFields :
            /\ ret.twice[f] = ret.once[f]
            /\ DOMAIN call.arg = {} => ret.once[f] = SeedRow[f]

\* C25 witness: a patch with a non-empty description and is_online true has been applied
\* twice to the seeded device, whose own description is not empty
C25_Witness ==
    /\ Evaluated("Update")
    /\ "description" \in DOMAIN call.arg
    /\ Len(call.arg.description) > 0
    /\ "is_online" \in DOMAIN call.arg
    /\ call.arg.is_online
    /\ ret.twice.description = call.arg.description
    /\ ret.twice.is_online
    /\ ret.twice.updated_at = MaxClock
    /\ SeedRow.description # <<>>

-----------------------------------------------------------------------------
\* Claims about the update path, checked under Spec

\* goroutine p takes the step of updateDevice that reads the baseline and merges the patch
UpdateMerges(p) == pc[p] = "idle" /\ pc'[p] = "update_exec"

\* goroutine p takes the step that executes Update's UPDATE statement
UpdateWrites(p) == pc[p] = "update_exec" /\ pc'[p] = "idle"

\* C8: for the baseline Update has read and every patch, each of the six values Update
\* binds and writes is the patch's value when the field is present in the patch and the
\* baseline's value when it is absent; the row holds exactly these values after the write.
C8_UpdateWritesPatchOverBaseline ==
    [][\A p \in Procs :
        /\ UpdateMerges(p) =>
              \A f \in UpdateFields :
                  req'[p].args[f] = IF f \in DOMAIN req'[p].device
                                    THEN req'[p].device[f]
                                    ELSE db[req'[p].id][f]
        /\ (UpdateWrites(p) /\ req[p].id \in DOMAIN db) =>
              \A f \in UpdateFields : db'[req[p].id][f] = req[p].args[f]]_vars

\* C8 witness: an update with a present empty string and a present false has been written
\* over the seeded row, whose description and owner, absent from the patch, are retained
C8_Witness ==
    /\ 1 \in DOMAIN db
    /\ resp.status = StatusNoContent
    /\ ~IsNull(db[1], "last_alarm_reason")
    /\ db[1].last_alarm_reason = <<>>
    /\ db[1].is_online = FALSE
    /\ db[1].name = <<68, 101, 118, 105, 99, 101, 64, 49, 50, 51>>
    /\ db[1].description = SeedRow.description
    /\ db[1].owned_by = SeedRow.owned_by

\* C9: an update never changes a stored field that is absent from its patch: across the
\* update's write the stored value of every absent field is unchanged, whatever ran
\* between the update's read and its write.
C9_UpdateLeavesAbsentFieldsUntouched ==
    [][\A p \in Procs :
        (UpdateWrites(p) /\ req[p].id \in DOMAIN db) =>
            \A f \in UpdateFields \ DOMAIN req[p].device :
                db'[req[p].id][f] = db[req[p].id][f]]_vars

\* C10: no patch that fails validateDeviceUpdate is persisted, so every stored device
\* keeps a valid name, owner, description and device_type.
C10_StoredDevicesStayValid ==
    \A id \in DOMAIN db :
        /\ IsValidDeviceName(db[id].name)
        /\ IsValidOwner(db[id].owned_by)
        /\ GoLen(db[id].description) <= MaxDescriptionLength
        /\ IsValidDeviceType(db[id].device_type)

-----------------------------------------------------------------------------
\* Claims about missing devices, the alarm endpoint and timestamps, checked under Spec

\* C11: an Update for an identifier that has no stored device fails with the not-found
\* error (sql.ErrNoRows) and issues no write: the update does not go on to its UPDATE
\* statement, and the stored devices and all their fields are unchanged.
C11_UpdateOfMissingDeviceFailsWithoutWrite ==
    [][\A p \in Procs, idStr \in IdParams, device \in Patches :
        (/\ updateDevice(p, idStr, device)
         /\ ParseInt(idStr).ok
         /\ ParseInt(idStr).value \notin DOMAIN db) =>
            /\ resp'.status = StatusInternalServerError
            /\ resp'.error = ErrNoRows
            /\ pc'[p] = "idle"
            /\ db' = db]_vars

\* C11 witness: an update of device 2, which is not stored, has been answered with the
\* not-found error while device 1 is stored
C11_Witness ==
    /\ resp.status = StatusInternalServerError
    /\ "error" \in DOMAIN resp
    /\ resp.error = ErrNoRows
    /\ DOMAIN db = {1}
    /\ \A p \in Procs : pc[p] = "idle"

\* C12: a Delete for an identifier that has no stored device is not answered as a
\* success: the delete endpoint does not answer 204 for it.
C12_DeleteOfMissingDeviceIsNotSuccess ==
    [][\A p \in Procs, idStr \in IdParams :
        (/\ deleteDevice(p, idStr)
         /\ ParseInt(idStr).ok
         /\ ParseInt(idStr).value \notin DOMAIN db) =>
            resp'.status # StatusNoContent]_vars

\* C18: GetByID for an identifier with no stored device returns the absence marker, no
\* device and no error, and the read endpoint answers 404 for it, leaving the store as
\* it is.
C18_ReadOfMissingDeviceIsAbsent ==
    [][\A p \in Procs, idStr \in IdParams :
        (/\ getDeviceByID(p, idStr)
         /\ ParseInt(idStr).ok
         /\ ParseInt(idStr).value \notin DOMAIN db) =>
            /\ GetByID(db, ParseInt(idStr).value) = [kind |-> "nil"]
            /\ resp' = [status |-> StatusNotFound, error |-> DeviceNotFoundMessage]
            /\ db' = db]_vars

\* C18 witness: a read of a device that is not stored has been answered with 404 and
\* "device not found", here after the only stored device was deleted
C18_Witness ==
    /\ resp = [status |-> StatusNotFound, error |-> DeviceNotFoundMessage]
    /\ DOMAIN db = {}
    /\ seq = 1

\* goroutine p takes the step that executes the store's TriggerAlarm statement
AlarmWrites(p) == pc[p] = "alarm_exec" /\ pc'[p] = "idle"

\* C17: timestamps are store-managed: the write of an Update and the write of a
\* TriggerAlarm change no device's id or created_at, and when the device they name is
\* stored they set its updated_at to the current time.
C17_TimestampsStoreManaged ==
    [][\A p \in Procs :
        (UpdateWrites(p) \/ AlarmWrites(p)) =>
            /\ DOMAIN db' = DOMAIN db
            /\ \A i \in DOMAIN db : db'[i].created_at = db[i].created_at
            /\ req[p].id \in DOMAIN db => db'[req[p].id].updated_at = now]_vars

\* C17 witness: the seeded device, created at time 1, has had an alarm written at time 2
\* and then an update written
C17_Witness ==
    /\ 1 \in DOMAIN db
    /\ db[1].created_at = 1
    /\ db[1].updated_at = 2
    /\ ~IsNull(db[1], "last_alarm_time")
    /\ db[1].last_alarm_time = 2
    /\ db[1].is_online = TRUE
    /\ resp = [status |-> StatusNoContent]

\* C19: every device that was created and not deleted is read by GetByID as a device,
\* neither an error nor the absence marker, with the name, description, device_type and
\* owned_by it has stored and is_online as stored; this includes a device on which no
\* alarm has yet been triggered.
C19_StoredDeviceIsReadable ==
    \A i \in DOMAIN db :
        LET r == GetByID(db, i)
        IN  /\ r.kind = "ok"
            /\ \A f \in {"name", "description", "device_type", "owned_by", "is_online"} :
                    r.device[f] = db[i][f]

\* the bodies of Creates that bind and fail ValidateDeviceCreate, with their error maps
RejectedCreates ==
    [device \in {d \in Creates : BindDeviceCreate(d).ok /\ ~ValidateDeviceCreate(d).ok} |->
        ValidateDeviceCreate(device).errors]

\* the bodies of Creates that bind and pass ValidateDeviceCreate
AcceptedCreates == {d \in Creates : BindDeviceCreate(d).ok /\ ValidateDeviceCreate(d).ok}

\* some goroutine takes createDevice's step for the body: a step that inserts a row of
\* the body's name and owner, or inserts nothing and answers with messages for fields
\* of a device
Creating(device) ==
    /\ UNCHANGED <<pc, req, now>>
    /\ IF db' = db
       THEN /\ "errors" \in DOMAIN resp'
            /\ DOMAIN resp'.errors \cap DOMAIN device # {}
       ELSE /\ seq + 1 \in DOMAIN db'
            /\ db'[seq + 1].name = device.name
            /\ db'[seq + 1].owned_by = device.owned_by
    /\ \E p \in Procs : createDevice(p, device)

C16_AlarmEndpointStatuses ==
    [][\A p \in Procs :
        /\ \A idStr \in IdParams, alarm \in Alarms :
              triggerDeviceAlarm(p, idStr, alarm) =>
                  LET id == ParseInt(idStr)
                      s == TriggerAlarmLookup(db, id.value, alarm)
                  IN  /\ ~id.ok =>
                            /\ resp' = [status |-> StatusBadRequest,
                                        error |-> InvalidDeviceIDMessage]
                            /\ pc'[p] = "idle"
                            /\ db' = db
                      /\ (/\ id.ok
                          /\ BindAlarmRequest(alarm).ok
                          /\ ValidateAlarmRequest(alarm).ok
                          /\ s.kind = "return") =>
                            /\ pc'[p] = "idle"
                            /\ resp'.error = s.err
                            /\ resp'.status = IF s.err = DeviceNotFoundError(id.value)
                                              THEN StatusNotFound
                                              ELSE StatusInternalServerError
        /\ AlarmWrites(p) => resp' = [status |-> StatusNoContent]]_vars

\* C16 witness: an alarm for device 2, which is not stored, has been answered with 404
\* and "device not found with ID: 2"
C16_Witness ==
    /\ resp = [status |-> StatusNotFound, error |-> DeviceNotFoundError(2)]
    /\ 2 \notin DOMAIN db
    /\ 1 \in DOMAIN db

-----------------------------------------------------------------------------
\* Claims about the service's TriggerAlarm, checked under SpecService

\* the positions in the store's log of the calls of its TriggerAlarm
AlarmWritesIn(r) == {k \in 1..Len(r.calls) : r.calls[k].fn = "TriggerAlarm"}

\* the text "[" + level + "] " + reason
Bracketed(level, reason) == <<91>> \o level \o <<93>> \o <<32>> \o reason

C14_AlarmLooksUpFirst ==
    /\ done => Len(ret.calls) >= 1
    /\ Len(ret.calls) >= 1 => ret.calls[1] = [fn |-> "GetByID", id |-> call.id]
    /\ (done /\ call.id \notin DOMAIN db) =>
            /\ ret.err = Err(DeviceNotFoundError(call.id))
            /\ AlarmWritesIn(ret) = {}

\* C14 witness: TriggerAlarm for id 2 has returned on a store that holds only device 1,
\* having made the lookup alone
C14_Witness ==
    /\ done
    /\ call.id = 2
    /\ DOMAIN db = {1}
    /\ ret.calls = <<[fn |-> "GetByID", id |-> 2]>>
    /\ ret.err = Err(DeviceNotFoundError(2))

\* C15: a store failure is returned as it is and nothing is retried: when the lookup
\* returns an error TriggerAlarm returns that error and never calls the store's
\* TriggerAlarm; when the store's TriggerAlarm returns an error TriggerAlarm returns
\* that error, having called it exactly once.
C15_AlarmPropagatesStoreErrors ==
    [][/\ (TriggerAlarm /\ GetByID(db, call.id).kind = "err") =>
            /\ done'
            /\ ret'.err = Err(GetByID(db, call.id).err)
            /\ AlarmWritesIn(ret') = {}
            /\ db' = db
       /\ TriggerAlarmWrite(TRUE) =>
            /\ done'
            /\ ret'.err = Err(ExecError)
            /\ Cardinality(AlarmWritesIn(ret')) = 1
            /\ db' = db]_vars

\* C15 witness: the store's TriggerAlarm has failed once with "database is locked" and
\* TriggerAlarm has returned that error
C15_Witness ==
    /\ done
    /\ "err" \in DOMAIN ret
    /\ ret.err = Err(ExecError)
    /\ Len(ret.calls) = 2
    /\ db = SeededTable

\* C22: the stored last_alarm_reason of a device does not exceed 200 characters after an
\* alarm that passed validateAlarmRequest has been triggered on it.
C22_StoredAlarmReasonWithinLimit ==
    (/\ done
     /\ call.fn = "TriggerAlarm"
     /\ ret.err = Nil
     /\ ValidateAlarmRequest(call.alarm).ok) =>
        CharCount(db[call.id].last_alarm_reason) <= MaxLastAlarmReasonLength

\* s starts with prefix and goes on after it
ContinuesAfter(s, prefix) ==
    /\ Len(s) > Len(prefix)
    /\ SubSeq(s, 1, Len(prefix)) = prefix

\* C21: on the alarm path validation precedes the trigger logic: a bound AlarmRequest
\* that fails validateAlarmRequest is answered with 400 and its error map, and the
\* service is not called (no write follows and the store is unchanged); so every reason
\* the path's write stores starts with one of "[INFO] ", "[WARNING] ", "[CRITICAL] " and
\* goes on with a non-empty reason.
C21_AlarmValidatesBeforeTrigger ==
    [][\A p \in Procs :
        /\ \A idStr \in IdParams, alarm \in Alarms :
              (/\ triggerDeviceAlarm(p, idStr, alarm)
               /\ ParseInt(idStr).ok
               /\ BindAlarmRequest(alarm).ok
               /\ ~ValidateAlarmRequest(alarm).ok) =>
                  /\ resp' = [status |-> StatusBadRequest,
                              errors |-> ValidateAlarmRequest(alarm).errors]
                  /\ pc'[p] = "idle"
                  /\ db' = db
        /\ (AlarmWrites(p) /\ req[p].id \in DOMAIN db) =>
              \E level \in ThreeLevels :
                  ContinuesAfter(db'[req[p].id].last_alarm_reason,
                                 <<91>> \o level \o <<93, 32>>)]_vars

\* C21 witness: the alarm of level INVALID_LEVEL has been answered with 400 and the
\* level message while device 1 holds the reason an earlier valid alarm stored
C21_Witness ==
    /\ resp = [status |-> StatusBadRequest, errors |-> [level |-> LevelMessage]]
    /\ 1 \in DOMAIN db
    /\ ~IsNull(db[1], "last_alarm_reason")
    /\ db[1].last_alarm_reason =
          <<91>> \o LevelCritical \o <<93, 32>>
          \o <<83, 109, 111, 107, 101, 32, 100, 101, 116, 101, 99, 116, 101, 100>>

\* C23: whenever the alarm path's write is answered as a success, the formatted reason
\* is stored on a device with the request's id, whatever ran between the lookup and the
\* write.
C23_SuccessfulAlarmIsStored ==
    [][\A p \in Procs :
        (AlarmWrites(p) /\ resp'.status = StatusNoContent) =>
            /\ req[p].id \in DOMAIN db'
            /\ db'[req[p].id].last_alarm_reason = req[p].formattedReason]_vars

\* the columns a row holds values in, with those values
SameColumn(row1, row2, col) ==
    /\ IsNull(row1, col) <=> IsNull(row2, col)
    /\ ~IsNull(row1, col) => row1[col] = row2[col]

\* C24: the write of TriggerAlarm changes only last_alarm_reason, last_alarm_time and
\* updated_at of the device it names and touches no other device; no other step changes
\* the last_alarm_time of a device, and in particular an Update leaves it as it is, also
\* when its patch carries last_alarm_reason.
C24_AlarmFrame ==
    [][\A p \in Procs :
        /\ AlarmWrites(p) =>
              /\ DOMAIN db' = DOMAIN db
              /\ \A i \in DOMAIN db \ {req[p].id} : db'[i] = db[i]
              /\ \A i \in DOMAIN db, f \in {"name", "description", "device_type", "owned_by",
                                             "is_online", "created_at"} :
                    db'[i][f] = db[i][f]
        /\ ~(\E q \in Procs : AlarmWrites(q)) =>
              \A i \in DOMAIN db \cap DOMAIN db' :
                  SameColumn(db'[i], db[i], "last_alarm_time")]_vars

\* C24 witness: at time 2 an update whose patch carries last_alarm_reason has been
\* written on the seeded device, whose last alarm is still the one of time 1
C24_Witness ==
    /\ resp = [status |-> StatusNoContent]
    /\ 1 \in DOMAIN db
    /\ ~IsNull(db[1], "last_alarm_time")
    /\ db[1].last_alarm_reason = <<>>
    /\ db[1].updated_at = 2
    /\ db[1].last_alarm_time = 1

====
